---- MODULE Spec2Model ----
(***************************************************************************)
(* Model of the ArcFM trace activities (RunArcFMWaterTrace,                *)
(* RunArcFMGasTrace, RunArcFMElectricTrace): one execute() call per        *)
(* invocation, the host channel it drives and the host cancellation token. *)
(*                                                                         *)
(* JavaScript values are tagged records; a JavaScript string is a sequence *)
(* of tokens (single characters of a URL, or one token for an enumeration  *)
(* literal), so that string operations are computed, not assumed.          *)
(***************************************************************************)
EXTENDS Naturals, Sequences, FiniteSets, TLC

VARIABLES invs, pc, variant, inputs, channel, observer, token, outcome,
          sendCalls, cancelCalls, signalledInFlight

vars == <<invs, pc, variant, inputs, channel, observer, token, outcome,
          sendCalls, cancelCalls, signalledInFlight>>

\* ------------------------------------------------------------------ bounds
MaxUrlLen == 3
MaxResults == 2

\* ------------------------------------------------------- JavaScript values
Undefined == [t |-> "undefined"]
Null == [t |-> "null"]
Str(s) == [t |-> "string", v |-> s]
Num(n) == [t |-> "number", v |-> n]
Arr(a) == [t |-> "array", v |-> a]
Obj(f) == [t |-> "object", v |-> f]

EmptyObj == [k \in {} |-> Undefined]

\* ToBoolean of a JavaScript value, as used by `!x`, `a && b`, `a || b`.
Truthy(x) ==
    CASE x.t = "undefined" -> FALSE
      [] x.t = "null" -> FALSE
      [] x.t = "string" -> x.v # <<>>
      [] x.t = "number" -> x.v # 0
      [] OTHER -> TRUE

\* a || b
JsOr(a, b) == IF Truthy(a) THEN a ELSE b

\* x?.k : undefined on undefined/null, the property (or undefined) otherwise
OptGet(x, k) ==
    IF x.t = "object" /\ k \in DOMAIN x.v THEN x.v[k] ELSE Undefined

\* obj.k on an object known to exist
Get(f, k) == IF k \in DOMAIN f THEN f[k] ELSE Undefined

\* destructuring default: `k = d` takes d exactly when the property is undefined
WithDefault(x, d) == IF x = Undefined THEN d ELSE x

\* rest pattern `...other`: own properties not named in the pattern
Rest(f, named) == [k \in DOMAIN f \ named |-> f[k]]

\* object literal { ...a, ...b }: later properties win
Spread(a, b) == [k \in DOMAIN a \cup DOMAIN b |-> IF k \in DOMAIN b THEN b[k] ELSE a[k]]

\* ------------------------------------------------------------ the variants
Variants == {"Water", "Gas", "Electric"}

\* last path segment of the request URL
VariantPath(v) ==
    CASE v = "Water" -> "Water%20Trace"
      [] v = "Gas" -> "Gas%20Trace"
      [] v = "Electric" -> "Electric%20Trace"

\* variant of DefaultTraceType: the Water/Gas default copied into Electric
DefaultTraceTypeCopied(v) == Str(<<"ValveIsolation">>)

\* default of the destructuring pattern for traceType
DefaultTraceType(v) ==
    IF v = "Electric" THEN Str(<<"Downstream">>) ELSE Str(<<"ValveIsolation">>)

\* default of the destructuring pattern for phasesToTrace (Electric only)
DefaultPhasesToTrace == Str(<<"Any">>)

\* variant of NamedKeys: serviceUrl left out of the pattern, read from inputs
NamedKeysWithoutUrl(v) ==
    IF v = "Electric" THEN {"phasesToTrace", "traceType"} ELSE {"traceType"}

\* the properties the destructuring pattern names
NamedKeys(v) ==
    IF v = "Electric" THEN {"phasesToTrace", "serviceUrl", "traceType"}
    ELSE {"serviceUrl", "traceType"}

\* message of the Error thrown for a missing serviceUrl
InputError(v) == IF v = "Electric" THEN "serviceUrl is required" ELSE "serviceUrl"

\* variant of IsMissing: `serviceUrl === undefined`
IsMissingOnlyUndefined(serviceUrl) == serviceUrl = Undefined

\* `!serviceUrl`
IsMissing(serviceUrl) == ~Truthy(serviceUrl)

\* s.replace(/\/*$/, ""): the leftmost position from which only "/" follows
\* up to the end of the string is where the match starts; it is cut off.
RemoveTrailingSlashes(s) ==
    LET starts == {k \in 1..(Len(s) + 1) : \A j \in k..Len(s) : s[j] = "/"}
        first == CHOOSE k \in starts : \A m \in starts : k <= m
    IN  SubSeq(s, 1, first - 1)

\* the string interpolated in front of "/exts/ArcFMMapServer/..."
UrlBase(v, inp) ==
    IF v = "Electric" THEN RemoveTrailingSlashes(Get(inp, "serviceUrl").v)
    ELSE Get(inp, "serviceUrl").v

\* channel.request.url
RequestUrl(v, inp) ==
    UrlBase(v, inp) \o <<"/", "exts", "/", "ArcFMMapServer", "/", VariantPath(v)>>

\* channel.request.json
RequestJson(v, inp) ==
    LET other == Rest(inp, NamedKeys(v))
        traceType == WithDefault(Get(inp, "traceType"), DefaultTraceType(v))
        phasesToTrace == WithDefault(Get(inp, "phasesToTrace"), DefaultPhasesToTrace)
        head == IF v = "Electric"
                THEN [f |-> Str(<<"json">>), phasesToTrace |-> phasesToTrace,
                      traceType |-> traceType]
                ELSE [f |-> Str(<<"json">>), traceType |-> traceType]
    IN  Obj(Spread(head, other))

\* channel.getResponseData(payload): the host's decoding of the raw payload
GetResponseData(payload) == payload.v

\* channel.response.payload && channel.getResponseData(channel.response.payload)
ResponseData(payload) ==
    IF Truthy(payload) THEN GetResponseData(payload) ELSE payload

\* variant of ExtractResults: only the nested path is read
ExtractResultsNestedOnly(v, responseData) ==
    JsOr(OptGet(OptGet(responseData, "data"), "results"), Arr(<<>>))

\* variant of ExtractResults: the trailing `|| []` is missing
ExtractResultsNoFallback(v, responseData) ==
    IF v = "Electric"
    THEN JsOr(OptGet(responseData, "results"),
              OptGet(OptGet(responseData, "data"), "results"))
    ELSE OptGet(responseData, "results")

\* the `results` constant computed from responseData
ExtractResults(v, responseData) ==
    IF v = "Electric"
    THEN JsOr(JsOr(OptGet(responseData, "results"),
                   OptGet(OptGet(responseData, "data"), "results")),
              Arr(<<>>))
    ELSE JsOr(OptGet(responseData, "results"), Arr(<<>>))

\* ------------------------------------------------ inputs and host responses
UrlChars == {"a", "/"}

RECURSIVE SeqsUpTo(_, _)
SeqsUpTo(S, n) ==
    IF n = 0 THEN {<<>>}
    ELSE LET shorter == SeqsUpTo(S, n - 1)
         IN  shorter \cup {Append(q, x) : q \in {r \in shorter : Len(r) = n - 1}, x \in S}

\* one optional property of an inputs object: absent, or present with a value
Field(k, values) == {EmptyObj} \cup {(k :> x) : x \in values}

ServiceUrls == {Str(s) : s \in SeqsUpTo(UrlChars, MaxUrlLen)}

TraceTypes == {Str(<<"ValveIsolation">>), Str(<<"Downstream">>)}

Phases == {Str(<<"Any">>), Str(<<"ABC">>)}

StartPoints == {Obj([x |-> Num(1), y |-> Num(2)])}

Tolerances == {Num(0)}

\* the inputs objects a caller can pass to execute of variant v
InputsOf(v) ==
    {Spread(Spread(Spread(Spread(u, t), ph), sp), tol) :
        u \in Field("serviceUrl", ServiceUrls),
        t \in Field("traceType", TraceTypes),
        ph \in IF v = "Electric" THEN Field("phasesToTrace", Phases) ELSE {EmptyObj},
        sp \in Field("startPoint", StartPoints),
        tol \in Field("tolerance", Tolerances)}

ResultLists == {Arr(l) : l \in SeqsUpTo({"r1", "r2"}, MaxResults)}

\* decoded response bodies: `results` absent, null or a list; `data` absent,
\* an object without results, or an object with a results list
ResponseBodies ==
    {Obj(Spread(r, d)) :
        r \in Field("results", {Null} \cup ResultLists),
        d \in Field("data", {Obj(EmptyObj)} \cup {Obj("results" :> l) : l \in ResultLists})}

\* channel.response.payload: absent, or a raw payload wrapping a decoded body
Payloads == {Undefined} \cup {[t |-> "raw", v |-> b] : b \in ResponseBodies}

\* what a failing channel.send() rejects with
TransportErrors == {"network failure", "non-success status", "undecodable response"}

\* ------------------------------------------------------------------ state
NoChannel == [state |-> "none"]

NoOutcome == [kind |-> "none"]

Terminal == {"Completed", "Failed", "Cancelled"}

InitWith(ids) ==
    /\ invs = ids
    /\ pc = [i \in ids |-> "Idle"]
    /\ variant = [i \in ids |-> "none"]
    /\ inputs = [i \in ids |-> EmptyObj]
    /\ channel = [i \in ids |-> NoChannel]
    /\ observer = [i \in ids |-> "none"]
    /\ token = [i \in ids |-> "pending"]
    /\ outcome = [i \in ids |-> NoOutcome]
    /\ sendCalls = [i \in ids |-> 0]
    /\ cancelCalls = [i \in ids |-> 0]
    /\ signalledInFlight = [i \in ids |-> FALSE]

Init == InitWith({1})

\* ---------------------------------------------------------------- actions
\* variant of Execute: one module-level channel shared by all invocations
ExecuteSharedChannel(i, v, inp) ==
    /\ pc[i] = "Idle"
    /\ variant' = [variant EXCEPT ![i] = v]
    /\ inputs' = [inputs EXCEPT ![i] = inp]
    /\ IF IsMissing(Get(inp, "serviceUrl"))
       THEN /\ pc' = [pc EXCEPT ![i] = "Failed"]
            /\ outcome' = [outcome EXCEPT ![i] = [kind |-> "error", error |-> InputError(v)]]
            /\ UNCHANGED <<channel, sendCalls>>
       ELSE /\ channel' = [j \in invs |->
                   [state |-> "sent", url |-> RequestUrl(v, inp), method |-> "POST",
                    json |-> RequestJson(v, inp), payload |-> Undefined, error |-> "none"]]
            /\ sendCalls' = [sendCalls EXCEPT ![i] = @ + 1]
            /\ pc' = [pc EXCEPT ![i] = "InFlight"]
            /\ UNCHANGED outcome
    /\ UNCHANGED <<invs, observer, token, cancelCalls, signalledInFlight>>

\* variant of Execute: a missing serviceUrl returns an empty result
ExecuteLenient(i, v, inp) ==
    /\ pc[i] = "Idle"
    /\ variant' = [variant EXCEPT ![i] = v]
    /\ inputs' = [inputs EXCEPT ![i] = inp]
    /\ IF IsMissing(Get(inp, "serviceUrl"))
       THEN /\ pc' = [pc EXCEPT ![i] = "Completed"]
            /\ outcome' = [outcome EXCEPT ![i] = [kind |-> "results", results |-> Arr(<<>>)]]
            /\ UNCHANGED <<channel, sendCalls>>
       ELSE /\ channel' = [channel EXCEPT ![i] =
                   [state |-> "sent", url |-> RequestUrl(v, inp), method |-> "POST",
                    json |-> RequestJson(v, inp), payload |-> Undefined, error |-> "none"]]
            /\ sendCalls' = [sendCalls EXCEPT ![i] = @ + 1]
            /\ pc' = [pc EXCEPT ![i] = "InFlight"]
            /\ UNCHANGED outcome
    /\ UNCHANGED <<invs, observer, token, cancelCalls, signalledInFlight>>

\* execute() from its call up to the suspension at `await channel.send()`
Execute(i, v, inp) ==
    /\ pc[i] = "Idle"
    /\ variant' = [variant EXCEPT ![i] = v]
    /\ inputs' = [inputs EXCEPT ![i] = inp]
    /\ IF IsMissing(Get(inp, "serviceUrl"))
       THEN /\ pc' = [pc EXCEPT ![i] = "Failed"]
            /\ outcome' = [outcome EXCEPT ![i] = [kind |-> "error", error |-> InputError(v)]]
            /\ UNCHANGED <<channel, sendCalls>>
       ELSE /\ channel' = [channel EXCEPT ![i] =
                   [state |-> "sent", url |-> RequestUrl(v, inp), method |-> "POST",
                    json |-> RequestJson(v, inp), payload |-> Undefined, error |-> "none"]]
            /\ sendCalls' = [sendCalls EXCEPT ![i] = @ + 1]
            /\ pc' = [pc EXCEPT ![i] = "InFlight"]
            /\ UNCHANGED outcome
    /\ UNCHANGED <<invs, observer, token, cancelCalls, signalledInFlight>>

\* the host channel receives the response: send()'s promise resolves
ChannelRespond(i, p) ==
    /\ channel[i].state = "sent"
    /\ channel' = [channel EXCEPT ![i].state = "responded", ![i].payload = p]
    /\ UNCHANGED <<invs, pc, variant, inputs, observer, token, outcome,
                   sendCalls, cancelCalls, signalledInFlight>>

\* the host channel fails: send()'s promise rejects with e
ChannelFail(i, e) ==
    /\ channel[i].state = "sent"
    /\ channel' = [channel EXCEPT ![i].state = "failed", ![i].error = e]
    /\ UNCHANGED <<invs, pc, variant, inputs, observer, token, outcome,
                   sendCalls, cancelCalls, signalledInFlight>>

\* channel.cancel(): aborts a request that is in flight, otherwise no effect
ChannelCancel(ch) ==
    IF ch.state = "sent" THEN [ch EXCEPT !.state = "aborted"] ELSE ch

\* variant of Resume: a failed send is sent again instead of being rethrown
ResumeRetry(i) ==
    /\ pc[i] = "InFlight"
    /\ channel[i].state \in {"responded", "failed", "aborted"}
    /\ IF channel[i].state = "responded"
       THEN /\ observer' = [observer EXCEPT ![i] = "registered"]
            /\ outcome' = [outcome EXCEPT ![i] =
                   [kind |-> "results",
                    results |-> ExtractResults(variant[i], ResponseData(channel[i].payload))]]
            /\ pc' = [pc EXCEPT ![i] = "Completed"]
            /\ UNCHANGED <<channel, sendCalls>>
       ELSE IF channel[i].state = "failed" /\ sendCalls[i] < 2
       THEN /\ channel' = [channel EXCEPT ![i].state = "sent", ![i].error = "none"]
            /\ sendCalls' = [sendCalls EXCEPT ![i] = @ + 1]
            /\ UNCHANGED <<pc, outcome, observer>>
       ELSE /\ outcome' = [outcome EXCEPT ![i] =
                   [kind |-> "error",
                    error |-> IF channel[i].state = "failed" THEN channel[i].error
                              ELSE "cancelled"]]
            /\ pc' = [pc EXCEPT ![i] =
                   IF channel[i].state = "failed" THEN "Failed" ELSE "Cancelled"]
            /\ UNCHANGED <<observer, channel, sendCalls>>
    /\ UNCHANGED <<invs, variant, inputs, token, cancelCalls, signalledInFlight>>

\* variant of Resume: the results are appended to a list kept across invocations
ResumeAccumulating(i) ==
    /\ pc[i] = "InFlight"
    /\ channel[i].state \in {"responded", "failed", "aborted"}
    /\ IF channel[i].state = "responded"
       THEN /\ observer' = [observer EXCEPT ![i] = "registered"]
            /\ outcome' = [outcome EXCEPT ![i] =
                   [kind |-> "results",
                    results |->
                       LET own == ExtractResults(variant[i], ResponseData(channel[i].payload))
                           earlier == {j \in invs \ {i} : outcome[j].kind = "results"}
                       IN  IF earlier = {} THEN own
                           ELSE Arr(outcome[CHOOSE j \in earlier : TRUE].results.v \o own.v)]]
            /\ pc' = [pc EXCEPT ![i] = "Completed"]
       ELSE /\ outcome' = [outcome EXCEPT ![i] =
                   [kind |-> "error",
                    error |-> IF channel[i].state = "failed" THEN channel[i].error
                              ELSE "cancelled"]]
            /\ pc' = [pc EXCEPT ![i] =
                   IF channel[i].state = "failed" THEN "Failed" ELSE "Cancelled"]
            /\ UNCHANGED observer
    /\ UNCHANGED <<invs, variant, inputs, channel, token, sendCalls, cancelCalls,
                   signalledInFlight>>

\* variant of Resume: the observer is registered on every path, as in a
\* try/finally around the await
ResumeRegisterAlways(i) ==
    /\ pc[i] = "InFlight"
    /\ channel[i].state \in {"responded", "failed", "aborted"}
    /\ observer' = [observer EXCEPT ![i] = "registered"]
    /\ IF channel[i].state = "responded"
       THEN /\ outcome' = [outcome EXCEPT ![i] =
                   [kind |-> "results",
                    results |-> ExtractResults(variant[i], ResponseData(channel[i].payload))]]
            /\ pc' = [pc EXCEPT ![i] = "Completed"]
       ELSE /\ outcome' = [outcome EXCEPT ![i] =
                   [kind |-> "error",
                    error |-> IF channel[i].state = "failed" THEN channel[i].error
                              ELSE "cancelled"]]
            /\ pc' = [pc EXCEPT ![i] =
                   IF channel[i].state = "failed" THEN "Failed" ELSE "Cancelled"]
    /\ UNCHANGED <<invs, variant, inputs, channel, token, sendCalls, cancelCalls,
                   signalledInFlight>>

\* execute() from the settlement of `await channel.send()` to its end
Resume(i) ==
    /\ pc[i] = "InFlight"
    /\ channel[i].state \in {"responded", "failed", "aborted"}
    /\ IF channel[i].state = "responded"
       THEN /\ observer' = [observer EXCEPT ![i] = "registered"]
            /\ outcome' = [outcome EXCEPT ![i] =
                   [kind |-> "results",
                    results |-> ExtractResults(variant[i], ResponseData(channel[i].payload))]]
            /\ pc' = [pc EXCEPT ![i] = "Completed"]
       ELSE /\ outcome' = [outcome EXCEPT ![i] =
                   [kind |-> "error",
                    error |-> IF channel[i].state = "failed" THEN channel[i].error
                              ELSE "cancelled"]]
            /\ pc' = [pc EXCEPT ![i] =
                   IF channel[i].state = "failed" THEN "Failed" ELSE "Cancelled"]
            /\ UNCHANGED observer
    /\ UNCHANGED <<invs, variant, inputs, channel, token, sendCalls, cancelCalls,
                   signalledInFlight>>

\* the caller cancels the enclosing operation: the cancellation token settles
CancelSignal(i) ==
    /\ pc[i] # "Idle"
    /\ token[i] = "pending"
    /\ token' = [token EXCEPT ![i] = "cancelled"]
    /\ signalledInFlight' = [signalledInFlight EXCEPT ![i] =
           pc[i] = "InFlight" /\ channel[i].state = "sent"]
    /\ UNCHANGED <<invs, pc, variant, inputs, channel, observer, outcome,
                   sendCalls, cancelCalls>>

\* the enclosing operation ends without a cancellation: the token settles
OperationEnds(i) ==
    /\ pc[i] \in Terminal
    /\ token[i] = "pending"
    /\ token' = [token EXCEPT ![i] = "ended"]
    /\ UNCHANGED <<invs, pc, variant, inputs, channel, observer, outcome,
                   sendCalls, cancelCalls, signalledInFlight>>

\* variant of RunObserver: the callback also turns the invocation's outcome
\* into a cancellation
RunObserverRejects(i) ==
    /\ observer[i] = "registered"
    /\ token[i] # "pending"
    /\ observer' = [observer EXCEPT ![i] = "ran"]
    /\ cancelCalls' = [cancelCalls EXCEPT ![i] = @ + 1]
    /\ channel' = [channel EXCEPT ![i] = ChannelCancel(@)]
    /\ pc' = [pc EXCEPT ![i] = "Cancelled"]
    /\ outcome' = [outcome EXCEPT ![i] = [kind |-> "error", error |-> "cancelled"]]
    /\ UNCHANGED <<invs, variant, inputs, token, sendCalls, signalledInFlight>>

\* the callback given to cancellationToken.finally runs: channel.cancel()
RunObserver(i) ==
    /\ observer[i] = "registered"
    /\ token[i] # "pending"
    /\ observer' = [observer EXCEPT ![i] = "ran"]
    /\ cancelCalls' = [cancelCalls EXCEPT ![i] = @ + 1]
    /\ channel' = [channel EXCEPT ![i] = ChannelCancel(@)]
    /\ UNCHANGED <<invs, pc, variant, inputs, token, outcome, sendCalls,
                   signalledInFlight>>

\* a caller invokes execute of some variant with some inputs
ExecuteStep ==
    \E i \in invs :
        /\ pc[i] = "Idle"
        /\ \E v \in Variants : \E inp \in InputsOf(v) : Execute(i, v, inp)

ChannelRespondStep ==
    \E i \in invs :
        /\ channel[i].state = "sent"
        /\ \E p \in Payloads : ChannelRespond(i, p)

ChannelFailStep ==
    \E i \in invs :
        /\ channel[i].state = "sent"
        /\ \E e \in TransportErrors : ChannelFail(i, e)

ResumeStep == \E i \in invs : Resume(i)

CancelSignalStep == \E i \in invs : CancelSignal(i)

OperationEndsStep == \E i \in invs : OperationEnds(i)

RunObserverStep == \E i \in invs : RunObserver(i)

Next ==
    \/ ExecuteStep
    \/ ChannelRespondStep
    \/ ChannelFailStep
    \/ ResumeStep
    \/ CancelSignalStep
    \/ OperationEndsStep
    \/ RunObserverStep

Spec == Init /\ [][Next]_vars

\* --------------------------------------------------------- two invocations
\* the inputs objects used when two invocations are modelled
PairInputsOf(v) ==
    {Spread(u, t) :
        u \in Field("serviceUrl", {Str(<<"a">>), Str(<<"a", "/">>)}),
        t \in Field("traceType", {Str(<<"Downstream">>)})}

\* the payloads used when two invocations are modelled
PairPayloads ==
    {Undefined,
     [t |-> "raw", v |-> Obj("results" :> Arr(<<"r1">>))],
     [t |-> "raw", v |-> Obj("results" :> Arr(<<"r2", "r1">>))],
     [t |-> "raw", v |-> Obj("data" :> Obj("results" :> Arr(<<"r2">>)))]}

InitPair == InitWith({1, 2})

\* the url, method and body invocation i set on its channel, if any
RequestOf(i) ==
    IF channel[i].state = "none" THEN <<>>
    ELSE <<channel[i].url, channel[i].method, channel[i].json>>

\* two workflow steps invoke execute, in any order and overlapping freely
PairExecuteStep ==
    \E i \in invs :
        /\ pc[i] = "Idle"
        /\ \E v \in Variants : \E inp \in PairInputsOf(v) : Execute(i, v, inp)

PairRespondStep ==
    \E i \in invs :
        /\ channel[i].state = "sent"
        /\ \E p \in PairPayloads : ChannelRespond(i, p)

NextPair ==
    \/ PairExecuteStep
    \/ PairRespondStep
    \/ ChannelFailStep
    \/ ResumeStep
    \/ CancelSignalStep
    \/ OperationEndsStep
    \/ RunObserverStep

SpecPair == InitPair /\ [][NextPair]_vars

\* execute is invoked a second time only after the first invocation has ended
SuccessiveExecuteStep ==
    \E i \in invs :
        /\ pc[i] = "Idle"
        /\ \A j \in invs : j < i => pc[j] \in Terminal
        /\ \E v \in Variants : \E inp \in PairInputsOf(v) : Execute(i, v, inp)

\* an earlier invocation whose request was the same as the one i has sent
\* and which the transport has answered
AnsweredSame(i) ==
    {j \in invs \ {i} : /\ channel[j].state \in {"responded", "failed"}
                         /\ RequestOf(j) = RequestOf(i)}

\* a deterministic transport: the same request gets the same response
DeterministicRespondStep ==
    \E i \in invs :
        /\ channel[i].state = "sent"
        /\ \E p \in PairPayloads :
              /\ \A j \in AnsweredSame(i) :
                     channel[j].state = "responded" /\ channel[j].payload = p
              /\ ChannelRespond(i, p)

\* a deterministic transport: the same request fails the same way
DeterministicFailStep ==
    \E i \in invs :
        /\ channel[i].state = "sent"
        /\ \E e \in TransportErrors :
              /\ \A j \in AnsweredSame(i) :
                     channel[j].state = "failed" /\ channel[j].error = e
              /\ ChannelFail(i, e)

NextSuccessive ==
    \/ SuccessiveExecuteStep
    \/ DeterministicRespondStep
    \/ DeterministicFailStep
    \/ ResumeStep
    \/ CancelSignalStep
    \/ OperationEndsStep
    \/ RunObserverStep

SpecSuccessive == InitPair /\ [][NextSuccessive]_vars

\* ----------------------------------------------------------------- claims
\* the caller supplied property k to invocation i
Supplied(i, k) == k \in DOMAIN inputs[i]

\* invocation i was called with serviceUrl missing or empty
UrlMissingOrEmpty(i) ==
    pc[i] # "Idle" /\ (~Supplied(i, "serviceUrl") \/ inputs[i].serviceUrl = Str(<<>>))

\* invocation i has created a channel and set its request
Dispatched(i) == channel[i].state # "none"

\* a string with every trailing "/" removed, one at a time
RECURSIVE Trimmed(_)
Trimmed(s) ==
    IF s # <<>> /\ s[Len(s)] = "/" THEN Trimmed(SubSeq(s, 1, Len(s) - 1)) ELSE s

\* the endpoint documented for variant v under base url s
Endpoint(v, s) ==
    Trimmed(s) \o <<"/", "exts", "/", "ArcFMMapServer", "/">>
               \o <<CASE v = "Water" -> "Water%20Trace"
                      [] v = "Gas" -> "Gas%20Trace"
                      [] v = "Electric" -> "Electric%20Trace">>

\* the token sequence q occurs in s
Contains(s, q) ==
    \E k \in 1..(Len(s) - Len(q) + 1) : SubSeq(s, k, k + Len(q) - 1) = q

\* C1: an invocation called with serviceUrl missing or empty has failed with
\* the input error and has touched no transport: no channel, no request, no
\* send, no cancellation observer.
C1_MissingUrlNoTransport ==
    \A i \in invs :
        UrlMissingOrEmpty(i) =>
            /\ pc[i] = "Failed"
            /\ outcome[i] = [kind |-> "error", error |-> InputError(variant[i])]
            /\ channel[i] = NoChannel
            /\ sendCalls[i] = 0
            /\ observer[i] = "none"
            /\ cancelCalls[i] = 0

\* C1 witness: an empty serviceUrl was rejected and the caller then cancelled
C1_Witness ==
    \E i \in invs :
        /\ Supplied(i, "serviceUrl") /\ inputs[i].serviceUrl = Str(<<>>)
        /\ pc[i] = "Failed"
        /\ token[i] = "cancelled"

\* C2: for every variant the request URL is the serviceUrl without its
\* trailing slashes followed by /exts/ArcFMMapServer/<variant path>, and so
\* never contains "//exts".
C2_UrlTrimmedEveryVariant ==
    \A i \in invs :
        Dispatched(i) =>
            /\ channel[i].url = Endpoint(variant[i], inputs[i].serviceUrl.v)
            /\ ~Contains(channel[i].url, <<"/", "/", "exts">>)

\* C3: for every variant a response that carries the list only at
\* data.results makes execute return exactly that list.
C3_NestedReturnedEveryVariant ==
    \A i \in invs :
        (/\ pc[i] = "Completed"
         /\ channel[i].payload # Undefined
         /\ "results" \notin DOMAIN channel[i].payload.v.v
         /\ OptGet(OptGet(channel[i].payload.v, "data"), "results").t = "array")
        => outcome[i] = [kind |-> "results",
                         results |-> channel[i].payload.v.v.data.v.results]

\* C4: when the cancellation signal fired between dispatch and response, the
\* finished invocation has had channel.cancel called exactly once and has
\* returned no results record.
C4_CancelInFlightAborts ==
    \A i \in invs :
        (signalledInFlight[i] /\ pc[i] \in Terminal) =>
            /\ outcome[i].kind # "results"
            /\ cancelCalls[i] = 1

\* C5: the body carries the caller's traceType (and, for Electric,
\* phasesToTrace) when supplied, and otherwise the documented default:
\* ValveIsolation for Water and Gas, Downstream and Any for Electric.
C5_DefaultsAndOverrides ==
    \A i \in invs :
        Dispatched(i) =>
            LET body == channel[i].json.v
            IN  /\ "traceType" \in DOMAIN body
                /\ body.traceType =
                     IF Supplied(i, "traceType") THEN inputs[i].traceType
                     ELSE IF variant[i] = "Electric" THEN Str(<<"Downstream">>)
                     ELSE Str(<<"ValveIsolation">>)
                /\ variant[i] = "Electric" =>
                     /\ "phasesToTrace" \in DOMAIN body
                     /\ body.phasesToTrace =
                          IF Supplied(i, "phasesToTrace") THEN inputs[i].phasesToTrace
                          ELSE Str(<<"Any">>)

\* C5 witness: Electric with traceType omitted and phasesToTrace supplied
C5_Witness ==
    \E i \in invs :
        /\ Dispatched(i)
        /\ variant[i] = "Electric"
        /\ ~Supplied(i, "traceType")
        /\ Supplied(i, "phasesToTrace") /\ inputs[i].phasesToTrace = Str(<<"ABC">>)
        /\ channel[i].json.v.traceType = Str(<<"Downstream">>)
        /\ channel[i].json.v.phasesToTrace = Str(<<"ABC">>)

\* the properties the documentation gives a default: always in the body
DefaultedKeys(v) == IF v = "Electric" THEN {"traceType", "phasesToTrace"} ELSE {"traceType"}

\* C6: the body has f = "json", every supplied property other than serviceUrl
\* with the caller's value, no property the caller did not supply other than
\* f and the defaulted ones, and never serviceUrl.
C6_BodyPassThrough ==
    \A i \in invs :
        Dispatched(i) =>
            LET body == channel[i].json.v
            IN  /\ channel[i].json.t = "object"
                /\ "f" \in DOMAIN body /\ body.f = Str(<<"json">>)
                /\ "serviceUrl" \notin DOMAIN body
                /\ \A k \in DOMAIN inputs[i] \ {"serviceUrl"} :
                       k \in DOMAIN body /\ body[k] = inputs[i][k]
                /\ \A k \in DOMAIN body :
                       k \in DOMAIN inputs[i] \cup {"f"} \cup DefaultedKeys(variant[i])

\* C6 witness: Gas with startPoint and a zero tolerance supplied, traceType not
C6_Witness ==
    \E i \in invs :
        /\ Dispatched(i)
        /\ variant[i] = "Gas"
        /\ DOMAIN inputs[i] = {"serviceUrl", "startPoint", "tolerance"}
        /\ DOMAIN channel[i].json.v = {"f", "traceType", "startPoint", "tolerance"}
        /\ channel[i].json.v.tolerance = Num(0)

\* the decoded body of the response invocation i received has a list at results
FlatResults(i) ==
    /\ channel[i].state = "responded"
    /\ channel[i].payload # Undefined
    /\ OptGet(channel[i].payload.v, "results").t = "array"

\* the response invocation i received is absent or has a list at neither path
NoResultsPath(i) ==
    /\ channel[i].state = "responded"
    /\ \/ channel[i].payload = Undefined
       \/ /\ OptGet(channel[i].payload.v, "results").t # "array"
          /\ OptGet(OptGet(channel[i].payload.v, "data"), "results").t # "array"

\* C7: a response with a list R at results makes execute return
\* { results: R }, R unchanged.
C7_FlatReturnedUnchanged ==
    \A i \in invs :
        (pc[i] \in Terminal /\ FlatResults(i)) =>
            /\ pc[i] = "Completed"
            /\ outcome[i] = [kind |-> "results", results |-> channel[i].payload.v.v.results]

\* C7 witness: the two-element list r2, r1 came back at results and was returned
C7_Witness ==
    \E i \in invs :
        /\ pc[i] = "Completed"
        /\ FlatResults(i)
        /\ "data" \notin DOMAIN channel[i].payload.v.v
        /\ channel[i].payload.v.v.results = Arr(<<"r2", "r1">>)
        /\ outcome[i].results = Arr(<<"r2", "r1">>)

\* C8: a response that is absent or has a list at neither results nor
\* data.results makes execute complete with { results: [] }.
C8_EmptyFallback ==
    \A i \in invs :
        (pc[i] \in Terminal /\ NoResultsPath(i)) =>
            /\ pc[i] = "Completed"
            /\ outcome[i] = [kind |-> "results", results |-> Arr(<<>>)]

\* C8 witness: Electric completed on a body with results null and an empty data
C8_Witness ==
    \E i \in invs :
        /\ pc[i] = "Completed"
        /\ variant[i] = "Electric"
        /\ channel[i].payload # Undefined
        /\ channel[i].payload.v = Obj(Spread("results" :> Null, "data" :> Obj(EmptyObj)))
        /\ outcome[i].results = Arr(<<>>)

\* C9: send is called at most once per invocation; after a failed send the
\* invocation has no results record and ends Failed with the send's error.
C9_SingleSendFailurePropagates ==
    \A i \in invs :
        /\ sendCalls[i] <= 1
        /\ channel[i].state = "failed" =>
             /\ outcome[i].kind # "results"
             /\ pc[i] \in {"InFlight", "Failed"}
             /\ pc[i] = "Failed" =>
                  outcome[i] = [kind |-> "error", error |-> channel[i].error]

\* C9 witness: a send that failed on a non-success status ended the invocation
C9_Witness ==
    \E i \in invs :
        /\ pc[i] = "Failed"
        /\ channel[i].state = "failed"
        /\ channel[i].error = "non-success status"
        /\ outcome[i] = [kind |-> "error", error |-> "non-success status"]
        /\ sendCalls[i] = 1

\* the transitions of the documented state machine
MachineTransitions ==
    {<<"Idle", "InFlight">>, <<"InFlight", "Completed">>,
     <<"InFlight", "Cancelled">>, <<"InFlight", "Failed">>}

\* what C10 says of one step of invocation i, apart from the allowed moves
StepDiscipline(i) ==
    /\ (pc[i] # "InFlight" /\ pc'[i] = "InFlight") <=> (sendCalls'[i] # sendCalls[i])
    /\ (pc[i] # "Cancelled" /\ pc'[i] = "Cancelled") =>
           (pc[i] = "InFlight" /\ token[i] = "cancelled")
    /\ pc'[i] = "Cancelled" => outcome'[i].kind # "results"
    /\ pc'[i] = "Completed" <=> outcome'[i].kind = "results"

\* C10 as stated: every change of state is one of Idle -> InFlight ->
\* {Completed | Cancelled | Failed}, InFlight is entered exactly on dispatch,
\* Cancelled only from InFlight on a cancellation signal, terminal states are
\* exclusive and final, and a Cancelled invocation has no result.
C10_OnlyMachineTransitions ==
    [][\A i \in invs :
          /\ pc'[i] # pc[i] => <<pc[i], pc'[i]>> \in MachineTransitions
          /\ StepDiscipline(i)]_vars

\* C10 amended: as C10, with the one further transition Idle -> Failed, taken
\* only when serviceUrl is missing or empty and without any dispatch.
C10_MachineWithInputFailure ==
    [][\A i \in invs :
          /\ pc'[i] # pc[i] =>
               \/ <<pc[i], pc'[i]>> \in MachineTransitions
               \/ /\ pc[i] = "Idle" /\ pc'[i] = "Failed"
                  /\ ~Supplied(i, "serviceUrl")' \/ inputs'[i].serviceUrl = Str(<<>>)
                  /\ channel'[i] = NoChannel
          /\ StepDiscipline(i)]_vars

\* C10 witness: channel.cancel ran on a cancellation after the invocation
\* completed, and the invocation is still Completed with its result
C10_Witness ==
    \E i \in invs :
        /\ pc[i] = "Completed"
        /\ token[i] = "cancelled"
        /\ observer[i] = "ran"
        /\ cancelCalls[i] = 1
        /\ outcome[i].kind = "results"

\* the request of invocation i is in flight and no response has arrived
AwaitingResponse(i) == pc[i] = "InFlight" /\ channel[i].state = "sent"

\* C12: in every state in which the request is in flight and the response has
\* not arrived, the cancellation observer is already registered.
C12_ObserverRegisteredInFlight ==
    \A i \in invs : AwaitingResponse(i) => observer[i] # "none"

\* the decoded body of the response invocation i received, undefined if absent
ReceivedBody(i) ==
    IF channel[i].payload = Undefined THEN Undefined ELSE channel[i].payload.v

\* C13: once the response has been received and execute has completed, the
\* completion hook calls channel.cancel at most once and the invocation stays
\* Completed with the results record extracted from the response.
C13_LateCancelHarmless ==
    /\ [](\A i \in invs :
            pc[i] = "Completed" =>
                /\ cancelCalls[i] <= 1
                /\ channel[i].state = "responded"
                /\ outcome[i].kind = "results"
                /\ outcome[i].results \in
                     {Arr(<<>>),
                      OptGet(ReceivedBody(i), "results"),
                      OptGet(OptGet(ReceivedBody(i), "data"), "results")})
    /\ [][\A i \in invs :
            pc[i] = "Completed" => (pc'[i] = "Completed" /\ outcome'[i] = outcome[i])]_vars

\* C13 witness: the operation ended normally after the response, the hook ran
\* channel.cancel once and the returned list is still the response's list
C13_Witness ==
    \E i \in invs :
        /\ pc[i] = "Completed"
        /\ token[i] = "ended"
        /\ observer[i] = "ran"
        /\ cancelCalls[i] = 1
        /\ outcome[i] = [kind |-> "results", results |-> Arr(<<"r1", "r2">>)]
        /\ OptGet(ReceivedBody(i), "results") = Arr(<<"r1", "r2">>)

\* C15: after a failed send no cancellation observer is ever registered and
\* channel.cancel is never called, whenever the cancellation signal fires.
C15_FailedSendNeverCancels ==
    \A i \in invs :
        channel[i].state = "failed" => (observer[i] = "none" /\ cancelCalls[i] = 0)

\* C15 witness: the signal fired during the send, the send failed, the
\* invocation ended Failed and nothing was cancelled
C15_Witness ==
    \E i \in invs :
        /\ signalledInFlight[i]
        /\ channel[i].state = "failed"
        /\ pc[i] = "Failed"
        /\ cancelCalls[i] = 0

\* C11: two successive invocations of the same variant with identical inputs,
\* answered by a deterministic transport, issue identical requests and end
\* with identical outputs.
C11_SuccessiveIdentical ==
    \A i, j \in invs :
        (/\ pc[i] # "Idle" /\ pc[j] # "Idle"
         /\ variant[i] = variant[j]
         /\ inputs[i] = inputs[j])
        => /\ RequestOf(i) = RequestOf(j)
           /\ sendCalls[i] = sendCalls[j]
           /\ (pc[i] \in Terminal /\ pc[j] \in Terminal) =>
                  (pc[i] = pc[j] /\ outcome[i] = outcome[j])

\* C11 witness: the second of two identical Gas invocations ran after the
\* first had completed, and returned the same two-element list
C11_Witness ==
    /\ invs = {1, 2}
    /\ variant[1] = "Gas" /\ variant[2] = "Gas"
    /\ inputs[1] = inputs[2]
    /\ pc[1] = "Completed" /\ pc[2] = "Completed"
    /\ RequestOf(1) = RequestOf(2)
    /\ outcome[1].results = Arr(<<"r2", "r1">>)
    /\ outcome[2].results = Arr(<<"r2", "r1">>)

\* the state that belongs to invocation i
OwnState(i) ==
    <<pc[i], variant[i], inputs[i], channel[i], observer[i], token[i],
      outcome[i], sendCalls[i], cancelCalls[i]>>

\* C14: under every interleaving of two invocations, each one's request is
\* the one its own inputs give (none before it is called or when its
\* serviceUrl is missing), its results are the ones its own response gives,
\* no step of one changes anything of the other, and channel.cancel runs on
\* an invocation's channel only for that invocation's own token.
C14_Isolation ==
    /\ [](\A i \in invs :
            /\ (pc[i] = "Idle" \/ UrlMissingOrEmpty(i)) => channel[i] = NoChannel
            /\ Dispatched(i) =>
                 RequestOf(i) = <<RequestUrl(variant[i], inputs[i]), "POST",
                                  RequestJson(variant[i], inputs[i])>>
            /\ pc[i] = "Completed" =>
                 /\ channel[i].state = "responded"
                 /\ outcome[i] =
                      [kind |-> "results",
                       results |-> ExtractResults(variant[i],
                                                  ResponseData(channel[i].payload))])
    /\ [][\A i, j \in invs :
            /\ (i # j /\ OwnState(i)' # OwnState(i)) => OwnState(j)' = OwnState(j)
            /\ cancelCalls'[i] # cancelCalls[i] =>
                 (token[i] # "pending" /\ observer[i] = "registered")]_vars

\* C14 witness: invocation 2 (Electric) completed and its cancellation ran
\* channel.cancel while invocation 1 (Water) is still in flight, untouched
C14_Witness ==
    /\ invs = {1, 2}
    /\ variant[1] = "Water" /\ variant[2] = "Electric"
    /\ pc[1] = "InFlight" /\ channel[1].state = "sent"
    /\ cancelCalls[1] = 0 /\ token[1] = "pending"
    /\ pc[2] = "Completed"
    /\ token[2] = "cancelled" /\ signalledInFlight[2]
    /\ observer[2] = "ran" /\ cancelCalls[2] = 1

====
